---- MODULE Spec2Model ----
(***************************************************************************)
(* The file-backed data store of lib/dataStore.js: the directory loader    *)
(* (loadDir, loadUsers, loadGroups, loadLayers), the reference resolver    *)
(* (buildDataStore), the watch-and-reload controller (initialize, load)    *)
(* and the deferred queries (layerUsers, groups).                          *)
(*                                                                         *)
(* Strings that the code splits on '.' (file names, ids) are sequences of  *)
(* their '.'-separated tokens: "alice.yaml" is <<"alice", "yaml">> and the *)
(* id "alice" is <<"alice">>; the empty string is <<>>.                    *)
(*                                                                         *)
(* Every object a load pass creates (a parsed user or group record, a      *)
(* layer stub) carries the number of the pass that created it (gen) and    *)
(* its position in the directory listing (oid): the pair is the object's   *)
(* identity within its kind ("user", "group", "layer"), and a resolved     *)
(* reference names its target by kind, gen and oid.                        *)
(***************************************************************************)
EXTENDS Integers, Sequences, FiniteSets, TLC

VARIABLES
  tree,      \* index in Trees of the directory tree currently on disk
  store,     \* the module-level variable `store` (dataStore.js:17)
  watchers,  \* one record per chokidar watcher started by initialize
  passes,    \* one record per call of load(dir, callback), in start order
  queries,   \* deferred emissions queued by layerUsers() / groups()
  objectPrototype,  \* Object.prototype of the process, which every record inherits from
  lastOk,    \* history: the pass whose successful final callback ran last
  emitted,   \* history: the sequence the last deferred emission produced
  raw,       \* resolver specification: the raw store handed to buildDataStore;
             \* lookup specification: the listing of users/ that was loaded
  built,     \* resolver specification: what buildDataStore returned
  env        \* process.env: the LDAP_LAYER_<LAYER>_PASSWORD variables, by <LAYER>

vars == << tree, store, watchers, passes, queries, objectPrototype, emitted, lastOk, raw,
          built, env >>

-----------------------------------------------------------------------------
(* Bounds *)

MaxInit == 2      \* calls of initialize
MaxPasses == 3    \* calls of load
MaxQueries == 1   \* deferred emissions queued and not yet run
MaxDecl == 3      \* resolver specification: group ids one user declares

-----------------------------------------------------------------------------
(* Values *)

NoEnv == << >>                              \* no layer password is configured
NoStore == [gen |-> 0]                      \* `store` is undefined
Null == [null |-> TRUE]                     \* null / undefined, dropped by compact
NoErr == "none"

\* a key that every object literal inherits, and the object it names
ProtoKey == << "__proto__" >>
ObjectPrototype == [kind |-> "builtin", gen |-> 0, oid |-> 0]
NoPrototypeMembers == [members |-> << >>]   \* Object.prototype has no `members`

Raw(id) == [tag |-> "raw", id |-> id]       \* an identifier left unresolved
Ref(o) == [tag |-> "ref", kind |-> o.kind, gen |-> o.gen, oid |-> o.oid]  \* a reference to object o

RECURSIVE compact(_)
compact(s) ==
  IF s = << >> THEN << >>
  ELSE IF Head(s) = Null THEN compact(Tail(s))
       ELSE << Head(s) >> \o compact(Tail(s))

Contains(s, x) == \E i \in 1..Len(s) : s[i] = x

RECURSIVE uniqFrom(_, _)
uniqFrom(s, seen) ==
  IF s = << >> THEN << >>
  ELSE IF Contains(seen, Head(s)) THEN uniqFrom(Tail(s), seen)
       ELSE << Head(s) >> \o uniqFrom(Tail(s), seen \o << Head(s) >>)

uniq(s) == uniqFrom(s, << >>)

join(tokens) == IF tokens = << "" >> THEN << >> ELSE tokens

fileUid(filename) ==
  LET tokens == filename
  IN IF Len(tokens) = 0 THEN << >>
     ELSE join(SubSeq(tokens, 1, Len(tokens) - 1))

Max(S) == CHOOSE x \in S : \A y \in S : y <= x

-----------------------------------------------------------------------------
(* The directory trees the filesystem can hold.  A directory is a listing  *)
(* [err, files]; an entry is [name, kind, bad, body]: kind is what lstat    *)
(* reports ("file", "dir", "link", "other"), bad names the filesystem call *)
(* that fails on it ("none", "stat", "read"), body is what the YAML parser *)
(* makes of a regular file's contents (parse: "ok", "bad" - the parser     *)
(* throws, "null" - an empty document) or, for a directory, its listing.   *)

Admin == << "admin" >>
Staff == << "staff" >>
Ghost == << "ghost" >>
NoGroup == << "nogroup" >>
Alice == << "alice" >>
Bob == << "bob" >>
Prod == << "prod" >>
Dev == << "dev" >>

UserBody(parse, primaryGroup, groups, hasKeys, publicKeys) ==
  [parse |-> parse, primaryGroup |-> primaryGroup, groups |-> groups,
   hasKeys |-> hasKeys, publicKeys |-> publicKeys]

GroupBody(parse, hasGid, gidNumber) ==
  [parse |-> parse, hasGid |-> hasGid, gidNumber |-> gidNumber]

Entry(name, kind, body) == [name |-> name, kind |-> kind, bad |-> "none", body |-> body]

Listing(files) == [err |-> FALSE, files |-> files]

AliceFile(parse) ==
  Entry(<< "alice", "yaml" >>, "file",
        UserBody(parse, Admin, << Admin, Admin, Ghost >>, TRUE, << "ssh-rsa A" >>))

BobFile(groups) ==
  Entry(<< "bob", "yml" >>, "file", UserBody("ok", NoGroup, groups, FALSE, << >>))

GroupFiles ==
  << Entry(<< "admin", "yaml" >>, "file", GroupBody("ok", TRUE, 100)),
     Entry(<< "staff", "yaml" >>, "file", GroupBody("ok", FALSE, 0)) >>

Link(name) == Entry(name, "link", Null)

\* an entry lstat fails on
Lost(name) == [Link(name) EXCEPT !.bad = "stat"]

LayerDir(name, links) == Entry(name, "dir", Listing(links))

ProdDir(links) == LayerDir(Prod, links)

DevDir == LayerDir(Dev, << Link(<< "bob", "lnk" >>) >>)

GoodUsers == << AliceFile("ok"), BobFile(<< Staff >>) >>

Trees ==
  << \* 1: two users, one group with and one without gidNumber, two layers
     [users |-> Listing(GoodUsers),
      groups |-> Listing(GroupFiles),
      layers |-> Listing(<< ProdDir(<< Link(<< "alice", "lnk" >>),
                                       Link(<< "carol", "lnk" >>) >>), DevDir >>)],
     \* 2: bob replaces carol in layer prod
     [users |-> Listing(GoodUsers),
      groups |-> Listing(GroupFiles),
      layers |-> Listing(<< ProdDir(<< Link(<< "alice", "lnk" >>),
                                       Link(<< "bob", "lnk" >>) >>), DevDir >>)],
     \* 3: alice's record is malformed
     [users |-> Listing(<< AliceFile("bad"), BobFile(<< Staff >>) >>),
      groups |-> Listing(GroupFiles),
      layers |-> Listing(<< ProdDir(<< Link(<< "alice", "lnk" >>),
                                       Link(<< "carol", "lnk" >>) >>), DevDir >>)],
     \* 4: layer prod has no member
     [users |-> Listing(GoodUsers),
      groups |-> Listing(GroupFiles),
      layers |-> Listing(<< ProdDir(<< >>), DevDir >>)],
     \* 5: bob's record lists the group id "__proto__"
     [users |-> Listing(<< AliceFile("ok"), BobFile(<< Staff, ProtoKey >>) >>),
      groups |-> Listing(GroupFiles),
      layers |-> Listing(<< ProdDir(<< Link(<< "alice", "lnk" >>),
                                       Link(<< "carol", "lnk" >>) >>), DevDir >>)],
     \* 6: every branch fails: two user records and one group record are
     \* malformed, lstat fails on two links of prod and on the link of dev
     [users |-> Listing(<< AliceFile("bad"),
                           Entry(<< "bob", "yml" >>, "file",
                                 UserBody("bad", NoGroup, << >>, FALSE, << >>)) >>),
      groups |-> Listing(<< Entry(<< "admin", "yaml" >>, "file", GroupBody("bad", TRUE, 100)),
                            Entry(<< "staff", "yaml" >>, "file", GroupBody("ok", TRUE, 200)) >>),
      layers |-> Listing(<< ProdDir(<< Lost(<< "alice", "lnk" >>), Lost(<< "bob", "lnk" >>) >>),
                            LayerDir(Dev, << Lost(<< "bob", "lnk" >>) >>) >>)],
     \* 7: lstat fails on both entries of layers/
     [users |-> Listing(GoodUsers),
      groups |-> Listing(GroupFiles),
      layers |-> Listing(<< Lost(Prod), Lost(Dev) >>)] >>

TreeIds == 1..Len(Trees)

Branches == { "users", "groups", "layers" }

\* fs.readdir of <dir>/users, <dir>/groups, <dir>/layers
readdir(t, branch) == Trees[t][branch]

\* fs.readdir of <dir>/layers/<id>
readdirLayer(t, id) ==
  LET files == Trees[t].layers.files
      hit == { i \in 1..Len(files) : join(files[i].name) = id }
  IN IF hit = {} THEN [err |-> TRUE, files |-> << >>]               \* ENOENT
     ELSE LET e == files[Max(hit)]
          IN IF e.kind = "dir" THEN e.body
             ELSE [err |-> TRUE, files |-> << >>]                   \* ENOTDIR

-----------------------------------------------------------------------------
(* The per-entry transforms.  Each returns [throws, val]. *)

Throw == [throws |-> TRUE, val |-> Null]
Return(v) == [throws |-> FALSE, val |-> v]

\* loadUsers' transform
userOf(gen, oid, entry) ==
  LET body == entry.body
  IN IF body.parse = "bad" THEN Throw                 \* yaml.safeLoad throws
     ELSE IF body.parse = "null" THEN Throw           \* user.cn = ... on undefined
     ELSE Return([kind |-> "user", gen |-> gen, oid |-> oid,
                  uid |-> fileUid(entry.name), cn |-> fileUid(entry.name),
                  primaryGroup |-> Raw(body.primaryGroup),
                  groups |-> [k \in 1..Len(body.groups) |-> Raw(body.groups[k])],
                  publicKeys |-> IF body.hasKeys THEN body.publicKeys ELSE << >>])

\* loadGroups' transform; members is the list buildDataStore creates on demand
groupOf(gen, oid, entry) ==
  LET body == entry.body
  IN IF body.parse = "bad" THEN Throw                 \* yaml.safeLoad throws
     ELSE IF body.parse = "null" THEN Return(Null)    \* !group
     ELSE IF ~body.hasGid \/ body.gidNumber = 0 THEN Return(Null)  \* log.info(...)
     ELSE Return([kind |-> "group", gen |-> gen, oid |-> oid, cn |-> fileUid(entry.name),
                  gidNumber |-> body.gidNumber, members |-> << >>])

\* loadLayers' first transform
layerOf(gen, oid, entry) ==
  Return([kind |-> "layer", gen |-> gen, oid |-> oid, id |-> join(entry.name),
          users |-> << >>])

\* loadLayers' second transform: the uid it pushes to layer.users
memberOf(gen, oid, entry) == Return(Raw(fileUid(entry.name)))

transform(which, gen, oid, entry) ==
  CASE which = "users" -> userOf(gen, oid, entry)
    [] which = "groups" -> groupOf(gen, oid, entry)
    [] which = "layers" -> layerOf(gen, oid, entry)
    [] which = "members" -> memberOf(gen, oid, entry)

-----------------------------------------------------------------------------
(* loadDir, once every filesystem call it issued has returned.  status is  *)
(* "err" (the callback got an error), "ok" (it got the result) or "stuck"  *)
(* (it was never invoked).                                                  *)

\* what one entry does to the run: "err", "acc" (accumulate pushed val), "none"
entryOutcome(which, gen, oid, e) ==
  IF e.bad = "stat" THEN [does |-> "err", val |-> Null]
  ELSE IF e.kind = "file"
       THEN IF e.bad = "read" THEN [does |-> "err", val |-> Null]
            ELSE LET r == transform(which, gen, oid, e)
                 IN IF r.throws THEN [does |-> "err", val |-> Null]
                    ELSE [does |-> "acc", val |-> r.val]
  ELSE IF e.kind \in { "dir", "link" }
       THEN LET r == transform(which, gen, oid, e)
            IN IF r.throws THEN [does |-> "err", val |-> Null]
               ELSE [does |-> "acc", val |-> r.val]
  ELSE [does |-> "none", val |-> Null]

\* the calls of callback(err) a run of loadDir makes: one for a failed readdir
\* (119), else one per entry that fails (127, 137, 141)
loadDirErrors(listing, which, gen) ==
  IF listing.err THEN 1
  ELSE Cardinality({ i \in 1..Len(listing.files) :
                       entryOutcome(which, gen, i, listing.files[i]).does = "err" })

loadDir(listing, which, gen) ==
  IF listing.err THEN [status |-> "err", result |-> << >>]
  ELSE LET files == listing.files
           out == [i \in 1..Len(files) |-> entryOutcome(which, gen, i, files[i])]
           c == Len(files) - Cardinality({ i \in 1..Len(files) : out[i].does = "acc" })
       IN IF \E i \in 1..Len(files) : out[i].does = "err"
          THEN [status |-> "err", result |-> << >>]
          ELSE IF Len(files) > 0 /\ c = 0
               THEN [status |-> "ok", result |-> [i \in 1..Len(files) |-> out[i].val]]
               ELSE [status |-> "stuck", result |-> << >>]

-----------------------------------------------------------------------------
(* buildDataStore *)

\* groups[cn] (241, 247): `groups` is an object literal (231), so its own keys
\* are the cn of the loaded groups, the last group with a cn winning (232-234),
\* and every other key is looked up in Object.prototype.  "__proto__" stands
\* for the inherited keys: groups["__proto__"] is Object.prototype itself.
groupsIndex(st, cn) ==
  LET hit == { i \in 1..Len(st.groups) : st.groups[i].cn = cn }
  IN IF hit # {} THEN st.groups[Max(hit)]
     ELSE IF cn = ProtoKey THEN ObjectPrototype ELSE Null

\* users[uid] (261), over the object literal filled at 235-237
usersIndex(st, uid) ==
  LET hit == { i \in 1..Len(st.users) : st.users[i].uid = uid }
  IN IF hit # {} THEN st.users[Max(hit)]
     ELSE IF uid = ProtoKey THEN ObjectPrototype ELSE Null

\* u.uniq(user.groups||[])
userGroupIds(user) == uniq(user.groups)

\* the objects the map at 246-256 returns for a user, Null where unresolved
userGroups(st, user) ==
  LET ids == userGroupIds(user)
  IN [k \in 1..Len(ids) |-> groupsIndex(st, ids[k].id)]

refs(objs) == [k \in 1..Len(objs) |-> IF objs[k] = Null THEN Null ELSE Ref(objs[k])]

RECURSIVE pushesFrom(_, _)
\* the calls of group.members.push(user) (253) that users i, i+1, ... make, in order
pushesFrom(st, i) ==
  IF i > Len(st.users) THEN << >>
  ELSE LET hits == compact(userGroups(st, st.users[i]))
       IN [k \in 1..Len(hits) |-> [user |-> Ref(st.users[i]), group |-> hits[k]]]
          \o pushesFrom(st, i + 1)

RECURSIVE pushAll(_, _)
\* 251-253 for each call in turn.  acc.own[oid] is the members property a group
\* owns and acc.proto the one of Object.prototype, << >> where there is none: a
\* group that owns none reads the inherited one, and pushes to that array.
pushAll(calls, acc) ==
  IF calls = << >> THEN acc
  ELSE LET user == Head(calls).user
           group == Head(calls).group
       IN pushAll(Tail(calls),
            IF group.kind = "builtin" THEN [acc EXCEPT !.proto = @ \o << user >>]
            ELSE IF acc.own[group.oid] # << >>
                 THEN [acc EXCEPT !.own[group.oid] = @ \o << user >>]
                 ELSE IF acc.proto # << >>
                      THEN [acc EXCEPT !.proto = @ \o << user >>]
                      ELSE [acc EXCEPT !.own[group.oid] = << user >>])

\* the members properties after the loop at 240-257
membersAfter(st) ==
  pushAll(pushesFrom(st, 1),
          [own |-> [o \in { st.groups[j].oid : j \in 1..Len(st.groups) } |-> << >>],
           proto |-> objectPrototype.members])

\* Object.prototype once buildDataStore(st) has returned
objectPrototypeAfter(st) == [members |-> membersAfter(st).proto]

\* group.members as a reader of the store finds it: the group's own property,
\* else the inherited one
membersOf(group) ==
  IF group.members # << >> THEN group.members ELSE objectPrototype.members

resolveUser(st, user) ==
  LET group == groupsIndex(st, user.primaryGroup.id)
  IN [user EXCEPT !.primaryGroup = IF group # Null THEN Ref(group) ELSE @,
                  !.groups = compact(refs(userGroups(st, user)))]

resolveLayer(st, layer) ==
  [layer EXCEPT !.users =
     compact(refs([k \in 1..Len(layer.users) |-> usersIndex(st, layer.users[k].id)]))]

buildDataStore(st) ==
  [gen |-> st.gen, dir |-> st.dir,
   users |-> [i \in 1..Len(st.users) |-> resolveUser(st, st.users[i])],
   groups |-> [j \in 1..Len(st.groups) |->
                 [st.groups[j] EXCEPT !.members = membersAfter(st).own[st.groups[j].oid]]],
   layers |-> [l \in 1..Len(st.layers) |-> resolveLayer(st, st.layers[l])]]

-----------------------------------------------------------------------------
(* load(dir, callback): async.parallel over loadGroups, loadUsers and      *)
(* loadLayers, then the final callback.  A pass is                          *)
(*   w, kind     the watcher whose handler called load; "initial" from the *)
(*               'ready' handler, "reload" from the 'all' handler          *)
(*   br          per branch: "io" (filesystem calls outstanding), "scan"   *)
(*               (loadLayers is scanning the layer directories), "ok" /    *)
(*               "err" (the task called back), "stuck" (every filesystem   *)
(*               call returned and the task never called back)             *)
(*   res         async.parallel's results array                            *)
(*   stubs,scans loadLayers' layers and the state of each membership scan  *)
(*   completed   async.parallel's counter                                  *)
(*   called      how the final callback was invoked: "none", "ok", "err"   *)
(*   calls, err  how often load's callback was invoked, and the error of   *)
(*               its latest invocation                                     *)
(*   firstErr    history: the first error a task called back with          *)
(*   sawFailure  history: a reload of w had already failed at the start    *)
(* A branch returns in one step, when the last filesystem call it issued   *)
(* returns: it sees the tree that is on disk at that moment.  The results  *)
(* of a pass are kept until its final callback has run; nothing reads them *)
(* afterwards.                                                              *)

NewPass(w, kind) ==
  [w |-> w, kind |-> kind,
   br |-> [b \in Branches |-> "io"],
   res |-> [b \in Branches |-> << >>],
   stubs |-> << >>, scans |-> << >>,
   completed |-> 0, called |-> "none", calls |-> 0, err |-> NoErr, firstErr |-> NoErr,
   sawFailure |-> \E q \in 1..Len(passes) :
                     passes[q].w = w /\ passes[q].kind = "reload" /\ passes[q].called = "err"]

\* signalled: 'ready' was emitted; ready: the closure variable of initialize;
\* cb: how initialize's callback was invoked ("none", "ok", or the error);
\* seen: history, the 'all' events delivered while ready was true;
\* early: history, an 'all' event was delivered while the initial load ran
NewWatcher ==
  [signalled |-> FALSE, ready |-> FALSE, cb |-> "none", seen |-> 0, early |-> FALSE]

\* a filesystem call of pass ps has not returned yet
IoOutstanding(ps) ==
  \/ \E b \in Branches : ps.br[b] = "io"
  \/ \E i \in 1..Len(ps.scans) : ps.scans[i] = "io"

settle(ps) ==
  IF ps.called = "none" THEN ps
  ELSE [ps EXCEPT !.res = [b \in Branches |-> << >>],
                  !.stubs = [i \in 1..Len(ps.stubs) |-> [ps.stubs[i] EXCEPT !.users = << >>]]]

\* a parallel that is done as soon as one task is
parallelDone_any(completed, n) == completed >= 1

\* async.parallel calls the final callback without error once every task is done
parallelDone(completed, n) == completed >= n

\* the store the final callback is about to resolve (274-279)
rawStore(p, ps) ==
  [gen |-> p, dir |-> "dir",
   users |-> compact(ps.res["users"]),
   groups |-> compact(ps.res["groups"]),
   layers |-> compact(ps.res["layers"])]

\* a final callback that installs the result whatever err is
loadCallbackStore_always(err, cur, new) == new

\* a final callback that keeps the store of a pass started later
loadCallbackStore_newer(err, cur, new) ==
  IF err # NoErr THEN cur
  ELSE IF cur # NoStore /\ new.gen < cur.gen THEN cur ELSE new

\* the value of `store` after the final callback (271-279)
loadCallbackStore(err, cur, new) == IF err # NoErr THEN cur ELSE new

\* a callback that sets ready whatever err is
readyAfterLoad_always(err, ready) == TRUE

\* the value of `ready` after the callback of the initial load (301-306)
readyAfterLoad(err, ready) == IF err # NoErr THEN ready ELSE TRUE

\* a parallel whose final callback is called for every error
finalOf_everyError(ps, ps1, status) ==
  IF status = "err" THEN "err"
  ELSE IF /\ status = "ok"
          /\ ps.called # "err"
          /\ parallelDone(ps1.completed, Cardinality(Branches))
       THEN "ok" ELSE "none"

\* which call of the final callback a task's callback leads to: after the
\* first error async.parallel has replaced the final callback by a no-op
finalOf(ps, ps1, status) ==
  IF status = "err" THEN (IF ps.called = "none" THEN "err" ELSE "none")
  ELSE IF /\ status = "ok"
          /\ ps.called # "err"
          /\ parallelDone(ps1.completed, Cardinality(Branches))
       THEN "ok" ELSE "none"

\* the final callback of load (271-282) and the callback initialize gave it
Final(p, ps1, fire, err, more) ==
  /\ passes' = [passes EXCEPT
                  ![p] = settle([ps1 EXCEPT
                                   !.called = IF fire = "none" THEN @ ELSE fire,
                                   !.calls = @ + (IF fire = "none" THEN 0 ELSE 1) + more,
                                   !.err = IF fire = "err" \/ more > 0 THEN err
                                           ELSE IF fire = "ok" THEN NoErr ELSE @])]
  /\ store' = IF fire = "none" THEN store
              ELSE loadCallbackStore(IF fire = "err" THEN err ELSE NoErr, store,
                                     buildDataStore(rawStore(p, ps1)))
  /\ watchers' = IF fire = "none" \/ ps1.kind = "reload" THEN watchers
                 ELSE [watchers EXCEPT
                         ![ps1.w].ready = readyAfterLoad(IF fire = "err" THEN err ELSE NoErr, @),
                         ![ps1.w].cb = IF fire = "err" THEN err ELSE "ok"]
  /\ objectPrototype' = IF fire = "ok" THEN objectPrototypeAfter(rawStore(p, ps1))
                        ELSE objectPrototype
  /\ lastOk' = IF fire = "ok" THEN p ELSE lastOk

\* a task of async.parallel calls back, `errors` times if with an error; ps is
\* the pass as the task left it.  The error a branch reports is named by the
\* branch.
TaskReturn(p, ps, b, status, result, errors) ==
  LET ps1 == [ps EXCEPT !.br[b] = status,
                        !.res[b] = IF status = "ok" THEN result ELSE @,
                        !.completed = IF status = "ok" THEN @ + 1 ELSE @,
                        !.firstErr = IF status = "err" /\ @ = NoErr THEN b ELSE @]
      fire == finalOf(ps, ps1, status)
      ps2 == [ps1 EXCEPT !.called = IF fire = "none" THEN @ ELSE fire]
      again == IF status = "err" /\ errors > 1 THEN finalOf(ps2, ps2, status) ELSE "none"
  IN Final(p, ps1, fire, b, IF again = "none" THEN 0 ELSE errors - 1)

\* loadUsers / loadGroups: the last filesystem call of the branch returns
BranchReturn(p, b) ==
  /\ p \in 1..Len(passes)
  /\ b \in { "users", "groups" }
  /\ passes[p].br[b] = "io"
  /\ LET r == loadDir(readdir(tree, b), b, p)
     IN TaskReturn(p, passes[p], b, r.status, r.result,
                   loadDirErrors(readdir(tree, b), b, p))
  /\ UNCHANGED << tree, queries, emitted, raw, env, built >>

\* loadLayers: the listing of layers/ is complete (208-223)
LayersListed(p) ==
  /\ p \in 1..Len(passes)
  /\ passes[p].br["layers"] = "io"
  /\ LET r == loadDir(readdir(tree, "layers"), "layers", p)
     IN IF r.status = "ok"
        THEN /\ passes' = [passes EXCEPT ![p].br["layers"] = "scan",
                                         ![p].stubs = r.result,
                                         ![p].scans = [i \in 1..Len(r.result) |-> "io"]]
             /\ UNCHANGED << store, watchers, objectPrototype, lastOk >>
        ELSE TaskReturn(p, passes[p], "layers", r.status, << >>,
                        loadDirErrors(readdir(tree, "layers"), "layers", p))
  /\ UNCHANGED << tree, queries, emitted, raw, env, built >>

\* loadLayers: the scan of one layer directory is complete (214-222)
LayerScanReturn(p, i) ==
  /\ p \in 1..Len(passes)
  /\ i \in 1..Len(passes[p].scans)
  /\ passes[p].scans[i] = "io"
  /\ LET ps == passes[p]
         r == loadDir(readdirLayer(tree, ps.stubs[i].id), "members", p)
         ps1 == [ps EXCEPT !.scans[i] = r.status,
                           !.stubs[i].users = r.result]
         c == Cardinality({ k \in 1..Len(ps1.scans) : ps1.scans[k] # "ok" })
     IN IF r.status = "err" \/ (r.status = "ok" /\ c = 0)
        THEN TaskReturn(p, ps1, "layers", r.status, ps1.stubs,
                        loadDirErrors(readdirLayer(tree, ps.stubs[i].id), "members", p))
        ELSE /\ passes' = [passes EXCEPT ![p] = settle(ps1)]
             /\ UNCHANGED << store, watchers, objectPrototype, lastOk >>
  /\ UNCHANGED << tree, queries, emitted, raw, env, built >>

-----------------------------------------------------------------------------
(* initialize(dir, callback) and the watcher's handlers *)

\* if (store) return callback("data store is already initialized") (292-293)
alreadyInitialized == store # NoStore

Initialize ==
  /\ IF alreadyInitialized
     THEN watchers' = watchers
     ELSE /\ Len(watchers) < MaxInit
          /\ watchers' = Append(watchers, NewWatcher)
  /\ UNCHANGED << tree, store, passes, queries, objectPrototype, emitted, lastOk, raw, env, built >>

\* the watcher's 'ready' handler (300-307): the initial load starts
WatcherReady(w) ==
  /\ w \in 1..Len(watchers)
  /\ ~watchers[w].signalled
  /\ Len(passes) < MaxPasses
  /\ watchers' = [watchers EXCEPT ![w].signalled = TRUE]
  /\ passes' = Append(passes, NewPass(w, "initial"))
  /\ UNCHANGED << tree, store, queries, objectPrototype, emitted, lastOk, raw, env, built >>

\* the files change on disk
FsChange(t) ==
  /\ t \in TreeIds
  /\ t # tree
  /\ tree' = t
  /\ UNCHANGED << store, watchers, passes, queries, objectPrototype, emitted, lastOk, raw, env, built >>

\* the initial load of watcher w has started and has not called back
InitialLoadRunning(w) ==
  /\ watchers[w].signalled
  /\ \E p \in 1..Len(passes) :
       passes[p].w = w /\ passes[p].kind = "initial" /\ passes[p].called = "none"

\* a handler that calls load only while no load is in flight
allStartsLoad_idle(w) ==
  /\ watchers[w].ready
  /\ \A q \in 1..Len(passes) : passes[q].called # "none"

\* the 'all' handler goes on to call load: if ( !ready ) return (309-310)
allStartsLoad(w) == watchers[w].ready

\* the watcher's 'all' handler (308-317); the watcher emits 'all' for the
\* entries of its initial scan and for every later change
OnAll(w) ==
  /\ w \in 1..Len(watchers)
  /\ IF allStartsLoad(w)
     THEN /\ Len(passes) < MaxPasses
          /\ passes' = Append(passes, NewPass(w, "reload"))
     ELSE passes' = passes
  /\ watchers' = [watchers EXCEPT ![w].seen = IF watchers[w].ready THEN @ + 1 ELSE @]
  /\ UNCHANGED << tree, store, queries, objectPrototype, emitted, lastOk, raw, env, built >>

-----------------------------------------------------------------------------
(* The deferred queries *)

NoLayer == << "nolayer" >>

Queries == { [fn |-> "layerUsers", layerId |-> Prod],
             [fn |-> "layerUsers", layerId |-> NoLayer],
             [fn |-> "groups", layerId |-> << >>] }

findLayer(id) ==
  LET hit == { i \in 1..Len(store.layers) : store.layers[i].id = id }
  IN IF hit = {} THEN Null ELSE store.layers[CHOOSE i \in hit : \A k \in hit : i <= k]

findUser(id) ==
  LET hit == { i \in 1..Len(store.users) : store.users[i].uid = id }
  IN IF hit = {} THEN Null ELSE store.users[CHOOSE i \in hit : \A k \in hit : i <= k]

End == [ev |-> "end"]

NoEmission == [q |-> Null]

\* a deferred function that returns without 'end' when the layer is missing
layerUsersEvents_silent(layerId) ==
  LET layer == findLayer(layerId)
  IN IF layer = Null THEN << >>
     ELSE [k \in 1..Len(layer.users) |-> [ev |-> "user", item |-> layer.users[k]]]
          \o << End >>

\* the events the deferred function of layerUsers emits (67-76)
layerUsersEvents(layerId) ==
  LET layer == findLayer(layerId)
  IN IF layer = Null THEN << End >>
     ELSE [k \in 1..Len(layer.users) |-> [ev |-> "user", item |-> layer.users[k]]]
          \o << End >>

\* the events the deferred function of groups emits (88-93)
groupsEvents ==
  [k \in 1..Len(store.groups) |-> [ev |-> "group", item |-> Ref(store.groups[k])]]
  \o << End >>

\* layerUsers(layerId) / groups(): the emitter is returned, the emission deferred
QueryCall(q) ==
  /\ q \in Queries
  /\ Len(queries) < MaxQueries
  /\ queries' = Append(queries, [q |-> q, callGen |-> store.gen])
  /\ emitted' = NoEmission
  /\ UNCHANGED << tree, store, watchers, passes, objectPrototype, lastOk, raw, env, built >>

\* the function a query handed to process.nextTick runs
QueryEmit ==
  /\ queries # << >>
  /\ LET q == Head(queries).q
     IN emitted' = [q |-> q,
                    callGen |-> Head(queries).callGen,
                    threw |-> store = NoStore,
                    events |-> IF store = NoStore THEN << >>
                               ELSE IF q.fn = "groups" THEN groupsEvents
                               ELSE layerUsersEvents(q.layerId)]
  /\ queries' = Tail(queries)
  /\ UNCHANGED << tree, store, watchers, passes, objectPrototype, lastOk, raw, env, built >>

-----------------------------------------------------------------------------
(* The controller's specification *)

NoRaw == [gen |-> 0, dir |-> "dir", users |-> << >>, groups |-> << >>, layers |-> << >>]

\* the trees the controller's specification moves between: a loadable one, one
\* whose load fails and one whose load never calls back
FailingTrees == { 1, 3, 4 }

Init ==
  /\ tree = 1
  /\ objectPrototype = NoPrototypeMembers
  /\ env = NoEnv
  /\ store = NoStore
  /\ watchers = << >>
  /\ passes = << >>
  /\ queries = << >>
  /\ lastOk = 0
  /\ emitted = NoEmission
  /\ raw = NoRaw
  /\ built = NoStore

Next ==
  \/ Initialize
  \/ \E w \in 1..MaxInit : WatcherReady(w)
  \/ \E t \in FailingTrees : FsChange(t)
  \/ \E w \in 1..MaxInit : OnAll(w)
  \/ \E p \in 1..MaxPasses, b \in { "users", "groups" } : BranchReturn(p, b)
  \/ \E p \in 1..MaxPasses : LayersListed(p)
  \/ \E p \in 1..MaxPasses, i \in 1..2 : LayerScanReturn(p, i)

Spec == Init /\ [][Next]_vars

-----------------------------------------------------------------------------
(* The failure specification: the controller on trees in which several     *)
(* entries, several layer scans and several branches fail.                  *)

BrokenTrees == { 6, 7 }

InitFail ==
  /\ tree = 6
  /\ objectPrototype = NoPrototypeMembers
  /\ env = NoEnv
  /\ store = NoStore
  /\ watchers = << >>
  /\ passes = << >>
  /\ queries = << >>
  /\ lastOk = 0
  /\ emitted = NoEmission
  /\ raw = NoRaw
  /\ built = NoStore

NextFail ==
  \/ Initialize
  \/ \E w \in 1..MaxInit : WatcherReady(w)
  \/ \E t \in BrokenTrees : FsChange(t)
  \/ \E w \in 1..MaxInit : OnAll(w)
  \/ \E p \in 1..MaxPasses, b \in { "users", "groups" } : BranchReturn(p, b)
  \/ \E p \in 1..MaxPasses : LayersListed(p)
  \/ \E p \in 1..MaxPasses, i \in 1..2 : LayerScanReturn(p, i)

SpecFail == InitFail /\ [][NextFail]_vars

-----------------------------------------------------------------------------
(* The query specification: it starts where initialize has succeeded on    *)
(* tree 1 (a state Spec reaches, see ReadyReached) and adds the deferred   *)
(* queries; the files move between the loadable trees.                     *)

LoadedPass ==
  [w |-> 1, kind |-> "initial",
   br |-> [b \in Branches |-> "ok"],
   res |-> [b \in Branches |-> << >>],
   stubs |-> [i \in 1..2 |-> loadDir(readdir(1, "layers"), "layers", 1).result[i]],
   scans |-> << "ok", "ok" >>,
   completed |-> 3, called |-> "ok", calls |-> 1, err |-> NoErr, firstErr |-> NoErr,
   sawFailure |-> FALSE]

LoadedStore ==
  buildDataStore(
    [gen |-> 1, dir |-> "dir",
     users |-> compact(loadDir(readdir(1, "users"), "users", 1).result),
     groups |-> compact(loadDir(readdir(1, "groups"), "groups", 1).result),
     layers |-> [i \in 1..2 |->
                   LET stub == loadDir(readdir(1, "layers"), "layers", 1).result[i]
                   IN [stub EXCEPT
                         !.users = loadDir(readdirLayer(1, stub.id), "members", 1).result]]])

InitReady ==
  /\ tree = 1
  /\ objectPrototype = NoPrototypeMembers
  /\ env = NoEnv
  /\ store = LoadedStore
  /\ watchers = << [signalled |-> TRUE, ready |-> TRUE, cb |-> "ok", seen |-> 0,
                     early |-> FALSE] >>
  /\ passes = << LoadedPass >>
  /\ queries = << >>
  /\ emitted = NoEmission
  /\ lastOk = 1
  /\ raw = NoRaw
  /\ built = NoStore

LoadableTrees == { 1, 2, 5 }

NextQuery ==
  \/ Initialize
  \/ \E t \in LoadableTrees : FsChange(t)
  \/ OnAll(1)
  \/ \E p \in 1..MaxPasses, b \in { "users", "groups" } : BranchReturn(p, b)
  \/ \E p \in 1..MaxPasses : LayersListed(p)
  \/ \E p \in 1..MaxPasses, i \in 1..2 : LayerScanReturn(p, i)
  \/ \E q \in Queries : QueryCall(q)
  \/ QueryEmit

SpecQuery == InitReady /\ [][NextQuery]_vars

-----------------------------------------------------------------------------
(* The early-event specification: the controller from its construction,    *)
(* with the files changing while an initial load runs and the watcher      *)
(* delivering the 'all' event of the change at once.                        *)

EarlyTrees == { 1, 2 }

\* the files change on disk while the initial load of watcher w runs, and the
\* 'all' handler (308-317) runs for the change: ready is false, so the handler
\* returns (309-310)
ChangeDuringLoad(w, t) ==
  /\ w \in 1..Len(watchers)
  /\ t \in TreeIds
  /\ t # tree
  /\ InitialLoadRunning(w)
  /\ ~ allStartsLoad(w)
  /\ tree' = t
  /\ watchers' = [watchers EXCEPT ![w].early = TRUE]
  /\ UNCHANGED << passes, store, queries, objectPrototype, emitted, lastOk, raw,
                  built, env >>

NextEarly ==
  \/ Initialize
  \/ \E w \in 1..MaxInit : WatcherReady(w)
  \/ \E w \in 1..MaxInit, t \in EarlyTrees : ChangeDuringLoad(w, t)
  \/ \E w \in 1..MaxInit : OnAll(w)
  \/ \E p \in 1..MaxPasses, b \in { "users", "groups" } : BranchReturn(p, b)
  \/ \E p \in 1..MaxPasses : LayersListed(p)
  \/ \E p \in 1..MaxPasses, i \in 1..2 : LayerScanReturn(p, i)

SpecEarly == Init /\ [][NextEarly]_vars

-----------------------------------------------------------------------------
(* The change specification: it starts where initialize has succeeded, and *)
(* the watcher delivers the 'all' event of every change as the change is   *)
(* made, so that a reload starts after each change.                         *)

ChangingTrees == { 1, 2 }

\* the files change on disk and the 'all' handler (308-317) runs for the change
ChangeSeen(t) ==
  /\ t \in TreeIds
  /\ t # tree
  /\ watchers[1].ready
  /\ Len(passes) < MaxPasses
  /\ tree' = t
  /\ passes' = Append(passes, NewPass(1, "reload"))
  /\ watchers' = [watchers EXCEPT ![1].seen = @ + 1]
  /\ UNCHANGED << store, queries, objectPrototype, emitted, lastOk, raw, built, env >>

NextChange ==
  \/ \E t \in ChangingTrees : ChangeSeen(t)
  \/ \E p \in 1..MaxPasses, b \in { "users", "groups" } : BranchReturn(p, b)
  \/ \E p \in 1..MaxPasses : LayersListed(p)
  \/ \E p \in 1..MaxPasses, i \in 1..2 : LayerScanReturn(p, i)

SpecChange == InitReady /\ [][NextChange]_vars

\* the store a load of tree t that reads every directory now would build, as
\* generation gen
FreshStore(t, gen) ==
  LET stubs == compact(loadDir(readdir(t, "layers"), "layers", gen).result)
  IN buildDataStore(
       [gen |-> gen, dir |-> "dir",
        users |-> compact(loadDir(readdir(t, "users"), "users", gen).result),
        groups |-> compact(loadDir(readdir(t, "groups"), "groups", gen).result),
        layers |-> [i \in 1..Len(stubs) |->
                      [stubs[i] EXCEPT
                         !.users = loadDir(readdirLayer(t, stubs[i].id), "members", gen).result]]])

-----------------------------------------------------------------------------
(* The resolver specification: buildDataStore applied to raw stores drawn  *)
(* from bounded sets.                                                       *)

SeqsUpTo(S, n) == UNION { [1..k -> S] : k \in 0..n }

DeclaredIds == { Admin, Staff, Ghost, ProtoKey }

RawUser(oid, name, primaryGroup, groups) ==
  userOf(1, oid, Entry(name, "file", UserBody("ok", primaryGroup, groups, FALSE, << >>))).val

RawGroup(oid, name) ==
  groupOf(1, oid, Entry(name, "file", GroupBody("ok", TRUE, 100))).val

RawGroupLists ==
  { << RawGroup(1, << "admin", "yaml" >>) >>,
    << RawGroup(1, << "admin", "yaml" >>), RawGroup(2, << "staff", "yaml" >>) >>,
    << RawGroup(1, << "admin", "yaml" >>), RawGroup(2, << "staff", "yaml" >>),
       RawGroup(3, << "admin", "yml" >>) >> }

RawLayers ==
  << [kind |-> "layer", gen |-> 1, oid |-> 1, id |-> Prod,
      users |-> << Raw(Alice), Raw(<< "carol" >>), Raw(Bob) >>] >>

RawStores ==
  { [gen |-> 1, dir |-> "dir",
     users |-> << RawUser(1, << "alice", "yaml" >>, pg, gs1),
                  RawUser(2, << "bob", "yml" >>, NoGroup, gs2) >>,
     groups |-> gl, layers |-> RawLayers] :
    pg \in { Admin, Ghost },
    gs1 \in SeqsUpTo(DeclaredIds, MaxDecl),
    gs2 \in { << >>, << Admin >>, << Staff, Admin, Staff >> },
    gl \in RawGroupLists }

InitResolve ==
  /\ tree = 1
  /\ objectPrototype = NoPrototypeMembers
  /\ env = NoEnv
  /\ store = NoStore
  /\ watchers = << >>
  /\ passes = << >>
  /\ queries = << >>
  /\ emitted = NoEmission
  /\ lastOk = 0
  /\ raw \in RawStores
  /\ built = NoStore

Resolve ==
  /\ built = NoStore
  /\ built' = buildDataStore(raw)
  /\ objectPrototype' = objectPrototypeAfter(raw)
  /\ UNCHANGED << tree, store, watchers, passes, queries, emitted, lastOk, raw, env >>

NextResolve == Resolve

SpecResolve == InitResolve /\ [][NextResolve]_vars

-----------------------------------------------------------------------------
(* The lookup specification: publicKeys(uid) on the store loaded from a    *)
(* users/ directory drawn from a bounded set.                               *)

\* what publicKeys returns when it does not return null
Keys(list) == [null |-> FALSE, keys |-> list]

\* a lookup that returns null for a user without keys
publicKeys_orNull(uid) ==
  LET user == findUser(uid)
  IN IF user = Null \/ user.publicKeys = << >> THEN Null ELSE Keys(user.publicKeys)

\* publicKeys(uid) (38-44)
publicKeys(uid) ==
  LET user == findUser(uid)
  IN IF user = Null THEN Null ELSE Keys(user.publicKeys)

KeyLists == { << >>, << "ssh-rsa A" >>, << "ssh-rsa A", "ssh-dss B" >>,
              << "ssh-dss B", "ssh-rsa A" >> }

KeyFile(name, hasKeys, keys) ==
  Entry(name, "file", UserBody("ok", Admin, << Admin >>, hasKeys, keys))

UserListings ==
  { Listing(<< KeyFile(<< "alice", "yaml" >>, h, ks) >>) :
      h \in BOOLEAN, ks \in KeyLists }
  \cup { Listing(<< KeyFile(<< "alice", "yaml" >>, h, ks),
                   KeyFile(<< "bob", "yml" >>, ~h, kb) >>) :
      h \in BOOLEAN, ks \in KeyLists, kb \in KeyLists }

ProbeUids == { Alice, Bob, << "carol" >> }

\* the store a load of the listing builds (274-279)
StoreOfUsers(listing) ==
  buildDataStore([gen |-> 1, dir |-> "dir",
                  users |-> compact(loadDir(listing, "users", 1).result),
                  groups |-> compact(loadDir(readdir(1, "groups"), "groups", 1).result),
                  layers |-> << >>])

InitKeys ==
  /\ tree = 1
  /\ objectPrototype = NoPrototypeMembers
  /\ env = NoEnv
  /\ raw \in UserListings
  /\ store = StoreOfUsers(raw)
  /\ watchers = << >>
  /\ passes = << >>
  /\ queries = << >>
  /\ emitted = NoEmission
  /\ lastOk = 1
  /\ built = NoStore

\* a call of publicKeys(uid); emitted records what it returned
PublicKeysCall(uid) ==
  /\ emitted' = [q |-> [fn |-> "publicKeys", uid |-> uid], callGen |-> store.gen,
                 threw |-> FALSE, events |-> publicKeys(uid)]
  /\ UNCHANGED << tree, store, watchers, passes, queries, objectPrototype, lastOk, raw, env,
                  built >>

NextKeys == \E uid \in ProbeUids : PublicKeysCall(uid)

SpecKeys == InitKeys /\ [][NextKeys]_vars

-----------------------------------------------------------------------------
(* The record-loader specification: one run of loadDir, with the transform *)
(* of loadUsers or of loadGroups, on a directory drawn from a bounded set.  *)
(* raw is [listing, which], built is [run |-> what loadDir did].            *)

FileEntry(name, parse) == Entry(name, "file", UserBody(parse, Admin, << >>, FALSE, << >>))

GroupEntry(name, parse, hasGid, gidNumber) ==
  Entry(name, "file", GroupBody(parse, hasGid, gidNumber))

Socket == Entry(<< "agent", "sock" >>, "other", Null)

\* what users/ can hold: records that parse, a malformed and an empty one, a
\* file without a '.' in its name, a file that cannot be read, an entry lstat
\* fails on, a socket
UserEntries ==
  { FileEntry(<< "alice", "yaml" >>, "ok"),
    FileEntry(<< "bob", "yml" >>, "ok"),
    FileEntry(<< "carol" >>, "ok"),
    FileEntry(<< "mallory", "yaml" >>, "bad"),
    FileEntry(<< "nobody", "yaml" >>, "null"),
    [FileEntry(<< "locked", "yaml" >>, "ok") EXCEPT !.bad = "read"],
    [FileEntry(<< "gone", "yaml" >>, "ok") EXCEPT !.bad = "stat"],
    Socket }

\* what groups/ can hold: records with a gidNumber (100, 0) and without one, a
\* malformed and an empty one
GroupEntries ==
  { GroupEntry(<< "admin", "yaml" >>, "ok", TRUE, 100),
    GroupEntry(<< "wheel", "yaml" >>, "ok", TRUE, 0),
    GroupEntry(<< "staff", "yaml" >>, "ok", FALSE, 0),
    GroupEntry(<< "broken", "yaml" >>, "bad", FALSE, 0),
    GroupEntry(<< "blank", "yaml" >>, "null", FALSE, 0) }

\* what layers/ can hold: directories, a symbolic link, a file, a socket, an
\* entry lstat fails on
LayerEntries ==
  { LayerDir(Prod, << >>), LayerDir(Dev, << >>), Link(<< "alice", "lnk" >>),
    FileEntry(<< "README" >>, "ok"), Socket,
    [LayerDir(<< "gone" >>, << >>) EXCEPT !.bad = "stat"] }

MaxEntries == 2   \* entries of the directory

Unreadable == [err |-> TRUE, files |-> << >>]    \* fs.readdir fails

DirRuns ==
  { [listing |-> l, which |-> "users"] :
      l \in { Listing(files) : files \in SeqsUpTo(UserEntries, MaxEntries) } \cup { Unreadable } }
  \cup
  { [listing |-> l, which |-> "groups"] :
      l \in { Listing(files) : files \in SeqsUpTo(GroupEntries, MaxEntries) } \cup { Unreadable } }
  \cup
  { [listing |-> l, which |-> "layers"] :
      l \in { Listing(files) : files \in SeqsUpTo(LayerEntries, MaxEntries) } \cup { Unreadable } }

InitLoadDir ==
  /\ tree = 1
  /\ objectPrototype = NoPrototypeMembers
  /\ env = NoEnv
  /\ store = NoStore
  /\ watchers = << >>
  /\ passes = << >>
  /\ queries = << >>
  /\ emitted = NoEmission
  /\ lastOk = 0
  /\ raw \in DirRuns
  /\ built = NoStore

\* loadDir runs until every filesystem call it issued has returned
LoadDirRun ==
  /\ built = NoStore
  /\ built' = [run |-> loadDir(raw.listing, raw.which, 1)]
  /\ UNCHANGED << tree, store, watchers, passes, queries, objectPrototype, emitted, lastOk,
                  raw, env >>

NextLoadDir == LoadDirRun

SpecLoadDir == InitLoadDir /\ [][NextLoadDir]_vars

-----------------------------------------------------------------------------
(* The filename specification: fileUid applied to file names drawn from a  *)
(* bounded set.  raw is [filename], built is [uid].                         *)

MaxTokens == 3   \* '.'-separated tokens of a file name

NameTokens == { "", "alice", "smith", "yaml" }

\* filename.split('.') always has at least one token
FileNames == SeqsUpTo(NameTokens, MaxTokens) \ { << >> }

InitFileUid ==
  /\ tree = 1
  /\ objectPrototype = NoPrototypeMembers
  /\ env = NoEnv
  /\ store = NoStore
  /\ watchers = << >>
  /\ passes = << >>
  /\ queries = << >>
  /\ emitted = NoEmission
  /\ lastOk = 0
  /\ raw \in { [filename |-> f] : f \in FileNames }
  /\ built = NoStore

FileUidCall ==
  /\ built = NoStore
  /\ built' = [uid |-> fileUid(raw.filename)]
  /\ UNCHANGED << tree, store, watchers, passes, queries, objectPrototype, emitted, lastOk,
                  raw, env >>

NextFileUid == FileUidCall

SpecFileUid == InitFileUid /\ [][NextFileUid]_vars

-----------------------------------------------------------------------------
(* The credential specification: authenticate(layer, credential, callback) *)
(* under environments, store states, layer names and credentials drawn     *)
(* from bounded sets.                                                       *)

LayerNames == { "prod", "Prod", "dev", "qa" }

\* layer.toUpperCase() (52)
toUpperCase(layer) ==
  CASE layer \in { "prod", "Prod" } -> "PROD"
    [] layer = "dev" -> "DEV"
    [] layer = "qa" -> "QA"

Secret(value) == [value |-> value]

\* process.env[format('LDAP_LAYER_%s_PASSWORD', name)]: Null when it is not set
envGet(name) == IF name \in DOMAIN env THEN env[name] ELSE Null

AuthOk(password) == [err |-> "none", result |-> password]

InvalidCredentialsError(layer) ==
  [err |-> "InvalidCredentialsError", message |-> << "Invalid login for layer ", layer >>]

\* a check that looks the password up under the layer name as given
authenticate_noUpper(layer, credential) ==
  LET password == envGet(layer)
  IN IF password # Null /\ password.value # "" /\ credential = password.value
     THEN << AuthOk(password.value) >>
     ELSE << InvalidCredentialsError(layer) >>

\* authenticate (51-57): the calls of callback it makes, in order; a password
\* that is the empty string is falsy at 53
authenticate(layer, credential) ==
  LET password == envGet(toUpperCase(layer))
  IN IF password # Null /\ password.value # "" /\ credential = password.value
     THEN << AuthOk(password.value) >>
     ELSE << InvalidCredentialsError(layer) >>

Secrets == { "", "right-secret" }

Credentials == { "", "right-secret", "wrong" }

Envs ==
  { [n \in names |-> Secret(f[n])] :
      names \in { {"PROD", "DEV"}, {"PROD"} }, f \in [{"PROD", "DEV"} -> Secrets] }
  \cup { NoEnv }

InitAuth ==
  /\ tree = 1
  /\ objectPrototype = NoPrototypeMembers
  /\ env \in Envs
  /\ store \in { NoStore, LoadedStore }
  /\ watchers = << >>
  /\ passes = << >>
  /\ queries = << >>
  /\ emitted = NoEmission
  /\ lastOk = store.gen
  /\ raw = NoRaw
  /\ built = NoStore

\* a call of authenticate; emitted records the calls of callback it made
Authenticate(layer, credential) ==
  /\ emitted' = [q |-> [fn |-> "authenticate", layer |-> layer, credential |-> credential],
                 callGen |-> store.gen, threw |-> FALSE,
                 events |-> authenticate(layer, credential)]
  /\ UNCHANGED << tree, store, watchers, passes, queries, objectPrototype, lastOk, raw,
                  built, env >>

NextAuth == \E layer \in LayerNames, credential \in Credentials : Authenticate(layer, credential)

SpecAuth == InitAuth /\ [][NextAuth]_vars

-----------------------------------------------------------------------------
(* Properties *)

Reloads(w) == { p \in 1..Len(passes) : passes[p].w = w /\ passes[p].kind = "reload" }

InFlight(p) == passes[p].called = "none"

Elems(seq) == { seq[k] : k \in 1..Len(seq) }

\* reference r names an object held by the collections of store st
InStore(st, r) ==
  /\ r.tag = "ref"
  /\ r.gen = st.gen
  /\ \E o \in Elems(IF r.kind = "user" THEN st.users ELSE st.groups) :
       o.kind = r.kind /\ o.gen = r.gen /\ o.oid = r.oid

\* every declared group and member id of st has been resolved or dropped
Resolved(st) ==
  /\ \A u \in Elems(st.users) : \A r \in Elems(u.groups) : r.tag = "ref"
  /\ \A l \in Elems(st.layers) : \A r \in Elems(l.users) : r.tag = "ref"

\* the state in which initialize has succeeded on tree 1 and nothing else happened
ReadyReached == InitReady

\* C1: a reload pass whose final callback gets an error leaves the store slot and
\* the watcher's ready flag as they were (the controller stays READY, so that
\* later events still start reloads).
C1_FailedReloadKeepsStore ==
  [][\A p \in 1..Len(passes) :
       (passes[p].kind = "reload" /\ passes[p].called = "none" /\ passes'[p].called = "err")
         => /\ store' = store
            /\ watchers' = watchers
            /\ watchers[passes[p].w].ready]_vars

\* C1 witness: a reload has failed, the store of an earlier pass is still current,
\* and a reload that started after the failure is running.
C1_Witness ==
  \E p, q \in 1..Len(passes) :
    /\ passes[p].kind = "reload" /\ passes[p].called = "err"
    /\ store # NoStore /\ store.gen < p
    /\ q > p /\ passes[q].sawFailure /\ InFlight(q)

\* C2: the store slot is unset or holds the resolved result of a pass whose three
\* branches, and every layer scan, had completed when it was installed.
C2_StoreIsCompleteGeneration ==
  store # NoStore =>
    /\ store.gen \in 1..Len(passes)
    /\ \A b \in Branches : passes[store.gen].br[b] = "ok"
    /\ \A i \in 1..Len(passes[store.gen].scans) : passes[store.gen].scans[i] = "ok"
    /\ passes[store.gen].called = "ok"
    /\ Len(store.layers) = Len(passes[store.gen].scans)
    /\ Resolved(store)

\* C2 witness: a store is installed while another pass is only partly loaded.
C2_Witness ==
  /\ store # NoStore
  /\ \E p \in 1..Len(passes) :
       /\ InFlight(p)
       /\ passes[p].br["users"] = "ok"
       /\ passes[p].br["layers"] = "scan"

\* C3: every object and every resolved reference of the installed store belongs to
\* the generation of that store.
C3_ReferencesSameGeneration ==
  store # NoStore =>
    /\ \A o \in Elems(store.users) \cup Elems(store.groups) \cup Elems(store.layers) :
         o.gen = store.gen
    /\ \A u \in Elems(store.users) :
         /\ u.primaryGroup.tag = "ref" => InStore(store, u.primaryGroup)
         /\ \A r \in Elems(u.groups) : InStore(store, r) /\ r.kind = "group"
    /\ \A g \in Elems(store.groups) :
         \A r \in Elems(membersOf(g)) : InStore(store, r) /\ r.kind = "user"
    /\ \A l \in Elems(store.layers) :
         \A r \in Elems(l.users) : InStore(store, r) /\ r.kind = "user"

Count(seq, x) == Cardinality({ k \in 1..Len(seq) : seq[k] = x })

\* C4: in a built store, a group is in a user's groups exactly when the user is in
\* the group's members, and a user is in a group's members at most once.
C4_MembershipBidirectional ==
  built # NoStore =>
    \A u \in Elems(built.users) : \A g \in Elems(built.groups) :
      /\ Contains(u.groups, Ref(g)) <=> Contains(membersOf(g), Ref(u))
      /\ Count(membersOf(g), Ref(u)) <= 1
      /\ Count(u.groups, Ref(g)) <= 1

\* C5: once a watcher has been started (the controller has left UNINITIALIZED), a
\* call of initialize starts no second watcher.
C5_InitializeRejectedPastUninitialized ==
  [][Len(watchers) >= 1 => Len(watchers') = Len(watchers)]_vars

\* C6: a failed initial load hands its error to the ready callback and leaves the
\* watcher not READY, with no reload ever started for it; the store is unset as
\* long as no ready callback reported success; and a ready callback that reported
\* success finds a store installed.
C6_FailedInitialLoad ==
  /\ \A p \in 1..Len(passes) :
       (passes[p].kind = "initial" /\ passes[p].called = "err")
         => /\ watchers[passes[p].w].cb \in Branches
            /\ ~watchers[passes[p].w].ready
            /\ watchers[passes[p].w].seen = 0
            /\ Reloads(passes[p].w) = {}
  /\ (\A w \in 1..Len(watchers) : watchers[w].cb # "ok") => store = NoStore
  /\ \A w \in 1..Len(watchers) :
       /\ watchers[w].cb = "ok" => store # NoStore
       /\ watchers[w].ready <=> watchers[w].cb = "ok"

\* C6 witness: the only initial load has failed and its other branches have returned.
C6_Witness ==
  /\ Len(passes) = 1
  /\ passes[1].kind = "initial" /\ passes[1].called = "err"
  /\ ~IoOutstanding(passes[1])
  /\ store = NoStore

\* C7: a load pass none of whose filesystem calls is outstanding has invoked its
\* completion callback.
C7_LoadCallsBack ==
  \A p \in 1..Len(passes) : ~IoOutstanding(passes[p]) => passes[p].called # "none"

\* C8: every 'all' event delivered to a watcher whose ready flag is set has started
\* a load pass of its own.
C8_EveryEventStartsLoad ==
  \A w \in 1..Len(watchers) : watchers[w].seen = Cardinality(Reloads(w))

\* C8 witness: a second event arrived while the reload of the first was in flight.
C8_Witness ==
  \E w \in 1..Len(watchers) : \E p, q \in Reloads(w) :
    p < q /\ InFlight(p) /\ InFlight(q) /\ watchers[w].seen = 2

\* C9: the current store is the generation of the pass whose successful final
\* callback ran last.
C9_LastFinisherWins ==
  /\ store # NoStore => store.gen = lastOk
  /\ lastOk # 0 => store # NoStore

\* C9 witness: two reloads overlapped, the one started later finished first, and
\* the store is that of the one that finished last.
C9_Witness ==
  \E p, q \in 1..Len(passes) :
    /\ p < q
    /\ passes[p].kind = "reload" /\ passes[q].kind = "reload"
    /\ passes[p].called = "ok" /\ passes[q].called = "ok"
    /\ lastOk = p /\ store.gen = p

LayersWithId(st, id) == { i \in 1..Len(st.layers) : st.layers[i].id = id }

\* C11: the deferred function of layerUsers, run on a loaded store, emits one
\* 'user' event per user of the layer, in order, and then one 'end' event and
\* nothing else; for a layer id the store does not hold it emits 'end' only.
C11_LayerUsersSequence ==
  [][(/\ queries # << >>
      /\ queries' = Tail(queries)
      /\ Head(queries).q.fn = "layerUsers"
      /\ store # NoStore)
     => LET ids == LayersWithId(store, Head(queries).q.layerId)
            events == emitted'.events
            n == Len(events)
        IN /\ ~emitted'.threw
           /\ n >= 1 /\ events[n] = End
           /\ \A k \in 1..(n - 1) : events[k].ev = "user"
           /\ ids = {} => n = 1
           /\ ids # {} =>
                LET layer == store.layers[CHOOSE i \in ids : \A j \in ids : i <= j]
                IN /\ n = Len(layer.users) + 1
                   /\ \A k \in 1..(n - 1) : events[k].item = layer.users[k]]_vars

\* C11 witness: layerUsers has emitted two users and 'end' for layer prod
C11_Witness ==
  /\ emitted # NoEmission
  /\ emitted.q = [fn |-> "layerUsers", layerId |-> Prod]
  /\ Len(emitted.events) = 3
  /\ emitted.events[3] = End

\* C11 witness for the missing layer: only 'end' was emitted
C11_WitnessMissing ==
  /\ emitted # NoEmission
  /\ emitted.q = [fn |-> "layerUsers", layerId |-> NoLayer]
  /\ emitted.events = << End >>

\* the files of listing raw that load as the user uid
FilesOf(uid) == { i \in 1..Len(raw.files) : fileUid(raw.files[i].name) = uid }

\* C12: publicKeys(uid) returns null exactly when users/ holds no record of
\* uid; for a record without a publicKeys field it returns the empty sequence,
\* and otherwise the keys of the record in their order.
C12_PublicKeys ==
  (emitted # NoEmission /\ emitted.q.fn = "publicKeys") =>
    LET files == FilesOf(emitted.q.uid)
        result == emitted.events
    IN /\ result = Null <=> files = {}
       /\ files # {} =>
            LET body == raw.files[CHOOSE i \in files : \A j \in files : i <= j].body
            IN /\ ~body.hasKeys => result = Keys(<< >>)
               /\ body.hasKeys => result = Keys(body.publicKeys)

\* C12 witness: the keys of a user with two keys were returned
C12_Witness ==
  /\ emitted # NoEmission
  /\ emitted.q.fn = "publicKeys"
  /\ emitted.events = Keys(<< "ssh-dss B", "ssh-rsa A" >>)

\* C12 witness for a record without a publicKeys field
C12_WitnessNoField ==
  /\ emitted # NoEmission
  /\ emitted.q.fn = "publicKeys"
  /\ emitted.q.uid = Bob
  /\ emitted.events = Keys(<< >>)
  /\ \E i \in FilesOf(Bob) : ~raw.files[i].body.hasKeys

\* the secret configured for the upper-cased layer name matches the credential
CredentialMatches(q) ==
  LET name == toUpperCase(q.layer)
  IN name \in DOMAIN env /\ q.credential = env[name].value

\* C13: authenticate calls back once, with the secret when the credential
\* equals the secret configured for the upper-cased layer name and with an
\* invalid-credentials error naming the layer otherwise, whatever the store
\* holds, and it leaves the store as it is.
C13_Authenticate ==
  [][(emitted' # NoEmission /\ emitted'.q.fn = "authenticate" /\ emitted' # emitted)
     => /\ store' = store
        /\ Len(emitted'.events) = 1
        /\ IF CredentialMatches(emitted'.q)
           THEN emitted'.events[1] = AuthOk(emitted'.q.credential)
           ELSE emitted'.events[1] = InvalidCredentialsError(emitted'.q.layer)]_vars

\* C13 as amended: the secret is yielded when the configured secret is not the
\* empty string and the credential equals it; in every other case, an empty
\* configured secret included, the callback gets the invalid-credentials error.
C13_AuthenticateNonEmpty ==
  [][(emitted' # NoEmission /\ emitted'.q.fn = "authenticate" /\ emitted' # emitted)
     => /\ store' = store
        /\ Len(emitted'.events) = 1
        /\ IF CredentialMatches(emitted'.q) /\ emitted'.q.credential # ""
           THEN emitted'.events[1] = AuthOk(emitted'.q.credential)
           ELSE emitted'.events[1] = InvalidCredentialsError(emitted'.q.layer)]_vars

\* C13 witness: a mixed-case layer name was authenticated against a loaded
\* store that does not hold the layer, and the secret came back
C13_Witness ==
  /\ emitted # NoEmission
  /\ emitted.q.fn = "authenticate"
  /\ emitted.q.layer = "Prod"
  /\ emitted.events = << AuthOk("right-secret") >>
  /\ store # NoStore
  /\ LayersWithId(store, << "Prod" >>) = {}

\* C13 witness for the empty secret: the empty credential was refused
C13_WitnessEmpty ==
  /\ emitted # NoEmission
  /\ emitted.q.fn = "authenticate"
  /\ emitted.q.credential = ""
  /\ CredentialMatches(emitted.q)
  /\ emitted.events = << InvalidCredentialsError(emitted.q.layer) >>

\* entry e of a directory read with transform `which` is one loadDir cannot load
FailingEntry(which, e) ==
  \/ e.bad = "stat"
  \/ e.kind \notin { "file", "dir", "link" }
  \/ e.kind = "file" /\ e.bad = "read"
  \/ e.kind = "file" /\ e.bad = "none" /\ transform(which, 1, 1, e).throws

\* C14: a run of loadDir whose listing fails, or that meets an entry whose kind
\* cannot be determined, a file that cannot be read or an entry the transform
\* throws for, reports an error to its callback and no result.
C14_LoadDirReportsError ==
  (built # NoStore /\ "run" \in DOMAIN built) =>
    ((\/ raw.listing.err
      \/ \E i \in 1..Len(raw.listing.files) : FailingEntry(raw.which, raw.listing.files[i]))
       => built.run.status = "err")

\* file i of the listing is a readable record the parser rejects
Malformed(i) ==
  LET e == raw.listing.files[i]
  IN e.kind = "file" /\ e.bad = "none" /\ e.body.parse = "bad"

\* C15: a malformed record in users/ makes the load of users/ fail; a malformed
\* record in groups/ is skipped, the load of groups/ succeeding with every
\* other group (that parses and has a gidNumber) in its result.
C15_MalformedRecordAsymmetry ==
  (built # NoStore /\ "run" \in DOMAIN built) =>
    LET files == raw.listing.files
        bad == { i \in 1..Len(files) : Malformed(i) }
    IN /\ (raw.which = "users" /\ bad # {}) => built.run.status = "err"
       /\ (/\ raw.which = "groups"
           /\ bad # {}
           /\ \A i \in 1..Len(files) : i \notin bad => ~FailingEntry("groups", files[i]))
          => /\ built.run.status = "ok"
             /\ \A i \in 1..Len(files) :
                  (i \notin bad /\ groupOf(1, i, files[i]).val # Null)
                    => Contains(compact(built.run.result), groupOf(1, i, files[i]).val)

\* C16: load's completion callback is invoked at most once; when tasks have
\* failed it was invoked once, with the first error, and never with a result.
C16_CallbackOnceWithFirstError ==
  \A p \in 1..Len(passes) :
    /\ passes[p].calls <= 1
    /\ passes[p].calls = 1 <=> passes[p].called # "none"
    /\ passes[p].firstErr # NoErr =>
         /\ passes[p].calls = 1
         /\ passes[p].called = "err"
         /\ passes[p].err = passes[p].firstErr

\* C16 witness: the three branches of one load have failed, users/ with two
\* failing entries, layers/ with two failing scans, and the callback got the
\* error of groups/, which failed first
C16_Witness ==
  \E p \in 1..Len(passes) :
    /\ \A b \in Branches : passes[p].br[b] = "err"
    /\ Len(passes[p].scans) = 2
    /\ \A i \in 1..2 : passes[p].scans[i] = "err"
    /\ passes[p].firstErr = "groups"
    /\ passes[p].err = "groups"
    /\ passes[p].calls = 1

\* C17: for a name with a '.', fileUid yields the segments but the last, joined
\* with '.'; for a name without a '.', the name itself.
C17_FileUidRule ==
  (built # NoStore /\ "uid" \in DOMAIN built) =>
    LET tokens == raw.filename
    IN /\ Len(tokens) >= 2 => built.uid = join(SubSeq(tokens, 1, Len(tokens) - 1))
       /\ Len(tokens) = 1 => built.uid = join(tokens)

\* C18: when groups/ holds records and every one of them parses, the load of
\* groups/ succeeds, and a group is in the result exactly when its record has
\* a gidNumber field, whatever the value.
C18_GroupKeptIffGidNumber ==
  (/\ built # NoStore /\ "run" \in DOMAIN built
   /\ raw.which = "groups" /\ ~raw.listing.err
   /\ Len(raw.listing.files) > 0
   /\ \A i \in 1..Len(raw.listing.files) :
        LET e == raw.listing.files[i]
        IN e.kind = "file" /\ e.bad = "none" /\ e.body.parse = "ok")
  => /\ built.run.status = "ok"
     /\ \A i \in 1..Len(raw.listing.files) :
          raw.listing.files[i].body.hasGid
            <=> \E g \in Elems(compact(built.run.result)) :
                  g.oid = i /\ g.cn = fileUid(raw.listing.files[i].name)

\* C19: when every load pass has completed successfully (and a reload was
\* started after the last change), the store is the one a fresh load of the
\* tree now on disk would build.
C19_SettledStoreIsFresh ==
  (\A p \in 1..Len(passes) : passes[p].called = "ok")
    => store = FreshStore(tree, store.gen)

\* C20: a watcher that became ready after an 'all' event was delivered during
\* its initial load has run a reload for that event, that is, one more reload
\* than the events delivered since it became ready.
C20_EarlyEventNotLost ==
  \A w \in 1..Len(watchers) :
    (watchers[w].ready /\ watchers[w].early)
      => Cardinality(Reloads(w)) > watchers[w].seen

====
